---- MODULE Spec2Model ----
(***************************************************************************)
(* Model of app_v14.py: the Streamlit page (session state, analysis run,   *)
(* check_compliance) and the script of create_interactive_display          *)
(* (highlightSnippet, restoreText, the scroll listener and the delayed     *)
(* scroll callback).                                                       *)
(*                                                                         *)
(* Text is a sequence of characters.  A character is a one-letter string;  *)
(* characters that cannot be written in a TLA+ string literal carry a      *)
(* name: "BSL" backslash, "NL" line feed, "BT" backtick, "QUOT" double     *)
(* quote, "APOS" single quote, "BS" backspace, "TAB", "CR", "VT", "FF",    *)
(* "NUL", "MARU" ideographic full stop, "FDOT" fullwidth full stop,        *)
(* "FEXC" fullwidth exclamation mark, "FQ" fullwidth question mark,        *)
(* "FCOLON" fullwidth colon, "HELLIP" horizontal ellipsis, "KO" "KYAKU"    *)
(* the two characters of the customer label, "TEN" "IN" the two of the     *)
(* clerk label.                                                            *)
(***************************************************************************)
EXTENDS Integers, Sequences, FiniteSets, TLC

VARIABLES
    uploaded_file,       \* the file held by st.file_uploader, or Null
    source_text,         \* st.session_state.source_text
    compliance_results,  \* st.session_state.compliance_results (a JSON value)
    view,                \* textContainer.innerHTML
    currentHighlight,    \* let currentHighlight
    lastScrollPosition,  \* let lastScrollPosition
    scrollTop,           \* textContainer.scrollTop
    timers,              \* pending setTimeout callbacks of highlightSnippet
    last,                \* history: what the latest call of highlightSnippet did
    run                  \* history: what the latest analysis run did

vars == <<uploaded_file, source_text, compliance_results, view, currentHighlight,
          lastScrollPosition, scrollTop, timers, last, run>>

-----------------------------------------------------------------------------
(* Sequences of characters *)

Max(a, b) == IF a >= b THEN a ELSE b

Min(a, b) == IF a <= b THEN a ELSE b

\* s[from..to], 1-based, empty when from > to
Slice(s, from, to) == SubSeq(s, from, to)

\* all texts over an alphabet, of length lo..hi
Texts(alphabet, lo, hi) == UNION {[1..n -> alphabet] : n \in lo..hi}

StartsWithAt(s, i, p) ==
    /\ i + Len(p) - 1 <= Len(s)
    /\ \A k \in 1..Len(p) : s[i + k - 1] = p[k]

\* the concatenation of the texts ss[lo..hi], by halves
RECURSIVE ConcatRange(_, _, _)
ConcatRange(ss, lo, hi) ==
    IF lo > hi THEN <<>>
    ELSE IF lo = hi THEN ss[lo]
    ELSE LET mid == (lo + hi) \div 2
         IN  ConcatRange(ss, lo, mid) \o ConcatRange(ss, mid + 1, hi)

Concat(ss) == ConcatRange(ss, 1, Len(ss))

\* JavaScript \s (and Python str.isspace) on the characters of the model
IsSpace(c) == c \in {" ", "NL", "TAB", "CR", "VT", "FF"}

RECURSIVE TrimLeft(_)
TrimLeft(s) ==
    IF s # <<>> /\ IsSpace(Head(s)) THEN TrimLeft(Tail(s)) ELSE s

RECURSIVE TrimRight(_)
TrimRight(s) ==
    IF s # <<>> /\ IsSpace(s[Len(s)])
    THEN TrimRight(Slice(s, 1, Len(s) - 1)) ELSE s

\* String.prototype.trim / str.strip
Trim(s) == TrimRight(TrimLeft(s))

-----------------------------------------------------------------------------
(* create_interactive_display: the escaped document *)

\* html.escape(c) of one character (quote=True)
EscapeChar(c) ==
    CASE c = "&"    -> <<"&", "a", "m", "p", ";">>
      [] c = "<"    -> <<"&", "l", "t", ";">>
      [] c = ">"    -> <<"&", "g", "t", ";">>
      [] c = "QUOT" -> <<"&", "q", "u", "o", "t", ";">>
      [] c = "APOS" -> <<"&", "#", "x", "2", "7", ";">>
      [] OTHER      -> <<c>>

\* escaped_text = html.escape(text)
html_escape(text) == Concat([i \in 1..Len(text) |-> EscapeChar(text[i])])

BrTag == <<"<", "b", "r", ">">>

\* escaped_text.replace(chr(10), "<br>"): the text placed in #text-container
\* and, a second time, inside the template literal of restoreText
RenderedText(text) ==
    LET e == html_escape(text)
    IN  Concat([i \in 1..Len(e) |-> IF e[i] = "NL" THEN BrTag ELSE <<e[i]>>])

\* the value of a JavaScript escape sequence \c inside a template literal;
\* <<"ERR">> where the sequence is a syntax error (\x, \u without digits,
\* \1..\9)
EscapeValue(c) ==
    CASE c = "b"   -> <<"BS">>
      [] c = "f"   -> <<"FF">>
      [] c = "n"   -> <<"NL">>
      [] c = "r"   -> <<"CR">>
      [] c = "t"   -> <<"TAB">>
      [] c = "v"   -> <<"VT">>
      [] c = "0"   -> <<"NUL">>
      [] c \in {"NL", "CR"} -> <<>>
      [] c \in {"x", "u", "1", "2", "3", "4", "5", "6", "7", "8", "9"}
                   -> <<"ERR">>
      [] OTHER     -> <<c>>

\* The value of the template literal `...` whose source text is s, or
\* <<"ERR">> when the script does not parse: a backtick ends the literal
\* early, a trailing backslash escapes the closing backtick, ${ opens a
\* substitution.
RECURSIVE TemplateValue(_)
TemplateValue(s) ==
    IF s = <<>> THEN <<>>
    ELSE IF Head(s) = "BT" THEN <<"ERR">>
    ELSE IF Head(s) = "$" /\ Len(s) >= 2 /\ s[2] = "{" THEN <<"ERR">>
    ELSE IF Head(s) = "BSL"
         THEN IF Len(s) = 1 THEN <<"ERR">>
              ELSE LET v == EscapeValue(s[2])
                       r == TemplateValue(Slice(s, 3, Len(s)))
                   IN  IF v = <<"ERR">> \/ r = <<"ERR">> THEN <<"ERR">>
                       ELSE v \o r
    ELSE LET r == TemplateValue(Tail(s))
         IN  IF r = <<"ERR">> THEN <<"ERR">> ELSE <<Head(s)>> \o r

\* the script block runs only if it parses
ScriptRuns(text) == TemplateValue(RenderedText(text)) # <<"ERR">>

\* function restoreText(): the new innerHTML
restoreText(text) == TemplateValue(RenderedText(text))

-----------------------------------------------------------------------------
(* Regular expressions of highlightSnippet, flags 'gi' *)

LowerCase == <<"a", "b", "c", "d", "e", "f", "g", "h", "i", "j", "k", "l", "m",
               "n", "o", "p", "q", "r", "s", "t", "u", "v", "w", "x", "y", "z">>

UpperCase == <<"A", "B", "C", "D", "E", "F", "G", "H", "I", "J", "K", "L", "M",
               "N", "O", "P", "Q", "R", "S", "T", "U", "V", "W", "X", "Y", "Z">>

\* lower-case letter -> upper-case letter
ToUpper == [c \in {LowerCase[k] : k \in 1..26} |->
              UpperCase[CHOOSE k \in 1..26 : LowerCase[k] = c]]

\* the canonical form two characters are compared in under the i flag
Fold(c) == IF c \in DOMAIN ToUpper THEN ToUpper[c] ELSE c

\* the characters  . * + ? ^ $ { } ( ) | [ ] \  of the escaping replace
MetaChars == {".", "*", "+", "?", "^", "$", "{", "}", "(", ")", "|", "[", "]",
              "BSL"}

\* s.replace(/[.*+?^${}()|[\]\\]/g, '\\$&')
EscapeRegExp(s) ==
    Concat([i \in 1..Len(s) |->
              IF s[i] \in MetaChars THEN <<"BSL", s[i]>> ELSE <<s[i]>>])

\* the replacement '[\\s<br>]*': a starred class of white space, <, b, r, >
BrClassStar == <<"[", "BSL", "s", "<", "b", "r", ">", "]", "*">>

WsStar == <<"BSL", "s", "*">>

\* src.replace(/\s+/g, '[\\s<br>]*'): every run of white space becomes the class
RECURSIVE ReplaceSpaceRuns(_)
ReplaceSpaceRuns(src) ==
    IF src = <<>> THEN <<>>
    ELSE IF IsSpace(Head(src))
         THEN BrClassStar \o ReplaceSpaceRuns(TrimLeft(src))
         ELSE <<Head(src)>> \o ReplaceSpaceRuns(Tail(src))

\* new RegExp(src, 'gi'): the atoms of the pattern, for the sources the
\* script builds (escaped literals, \s*, [\s<br>]*).  An atom is a literal
\* character, or a starred class ("ws": \s, "wsbr": [\s<br>]).
RECURSIVE RegExpAtoms(_)
RegExpAtoms(src) ==
    IF src = <<>> THEN <<>>
    ELSE IF StartsWithAt(src, 1, BrClassStar)
         THEN <<[k |-> "star", c |-> "wsbr"]>>
              \o RegExpAtoms(Slice(src, Len(BrClassStar) + 1, Len(src)))
    ELSE IF StartsWithAt(src, 1, WsStar)
         THEN <<[k |-> "star", c |-> "ws"]>>
              \o RegExpAtoms(Slice(src, Len(WsStar) + 1, Len(src)))
    ELSE IF Head(src) = "BSL" /\ Len(src) >= 2
         THEN <<[k |-> "lit", c |-> src[2]]>>
              \o RegExpAtoms(Slice(src, 3, Len(src)))
    ELSE <<[k |-> "lit", c |-> Head(src)]>> \o RegExpAtoms(Tail(src))

InClass(class, c) ==
    \/ IsSpace(c)
    \/ class = "wsbr" /\ Fold(c) \in {"<", "B", "R", ">"}

\* the length of the run of class characters of text that starts at i
RECURSIVE ClassRun(_, _, _)
ClassRun(class, text, i) ==
    IF i <= Len(text) /\ InClass(class, text[i])
    THEN 1 + ClassRun(class, text, i + 1) ELSE 0

\* The position after the match of atoms[k..] at text position i, 0 when
\* there is none.  A star is greedy and backtracks: it first takes n
\* characters, then n-1, ...
RECURSIVE MatchEnd(_, _, _, _)
RECURSIVE StarEnd(_, _, _, _, _)
MatchEnd(atoms, k, text, i) ==
    IF k > Len(atoms) THEN i
    ELSE IF atoms[k].k = "lit"
         THEN IF i <= Len(text) /\ Fold(text[i]) = Fold(atoms[k].c)
              THEN MatchEnd(atoms, k + 1, text, i + 1)
              ELSE 0
    ELSE StarEnd(atoms, k, text, i, ClassRun(atoms[k].c, text, i))

StarEnd(atoms, k, text, i, n) ==
    LET e == MatchEnd(atoms, k + 1, text, i + n)
    IN  IF e # 0 THEN e
        ELSE IF n = 0 THEN 0
        ELSE StarEnd(atoms, k, text, i, n - 1)

\* the start of the leftmost match at or after from, 0 when there is none
MatchStart(atoms, text, from) ==
    LET starts == {p \in from..(Len(text) + 1) :
                     MatchEnd(atoms, 1, text, p) # 0}
    IN  IF starts = {} THEN 0
        ELSE CHOOSE p \in starts : \A q \in starts : p <= q

\* pattern.test(text), lastIndex 0
RegExpTest(atoms, text) == MatchStart(atoms, text, 1) # 0

\* A replacement string with its $$ and $& patterns expanded
RECURSIVE Substitute(_, _)
Substitute(repl, match) ==
    IF repl = <<>> THEN <<>>
    ELSE IF Head(repl) = "$" /\ Len(repl) >= 2 /\ repl[2] = "$"
         THEN <<"$">> \o Substitute(Slice(repl, 3, Len(repl)), match)
    ELSE IF Head(repl) = "$" /\ Len(repl) >= 2 /\ repl[2] = "&"
         THEN match \o Substitute(Slice(repl, 3, Len(repl)), match)
    ELSE <<Head(repl)>> \o Substitute(Tail(repl), match)

\* text.replace(pattern, ...) with the g flag, from position pos on: every
\* match, left to right and not overlapping, becomes pre \o X \o post, where
\* X is the matched text (keep) or the replacement string mid.  After an
\* empty match the search moves one character on.
RECURSIVE ReplaceFrom(_, _, _, _, _, _, _)
ReplaceFrom(atoms, text, pos, pre, mid, post, keep) ==
    LET s == MatchStart(atoms, text, pos)
    IN  IF s = 0 THEN Slice(text, pos, Len(text))
        ELSE LET e == MatchEnd(atoms, 1, text, s)
                 m == Slice(text, s, e - 1)
                 r == pre \o (IF keep THEN m ELSE Substitute(mid, m)) \o post
             IN  Slice(text, pos, s - 1) \o r \o
                 (IF e > s
                  THEN ReplaceFrom(atoms, text, e, pre, mid, post, keep)
                  ELSE IF s > Len(text) THEN <<>>
                  ELSE <<text[s]>> \o
                       ReplaceFrom(atoms, text, s + 1, pre, mid, post, keep))

-----------------------------------------------------------------------------
(* The script of create_interactive_display *)

\* let currentHighlight = null
Null == <<"null">>

\* the delimiters [。．！？\n] of splitIntoSentences
SentenceDelims == {"MARU", "FDOT", "FEXC", "FQ", "NL"}

Ellipsis == <<".", ".", ".">>

\* text.split(/[。．！？\n]|\.\.\./g): the pieces between the delimiters;
\* cur is the piece being read
RECURSIVE SplitPieces(_, _)
SplitPieces(text, cur) ==
    IF text = <<>> THEN <<cur>>
    ELSE IF Head(text) \in SentenceDelims
         THEN <<cur>> \o SplitPieces(Tail(text), <<>>)
    ELSE IF StartsWithAt(text, 1, Ellipsis)
         THEN <<cur>> \o SplitPieces(Slice(text, 4, Len(text)), <<>>)
    ELSE SplitPieces(Tail(text), Append(cur, Head(text)))

\* function splitIntoSentences(text): .filter(s => s.trim().length > 0)
splitIntoSentences(text) ==
    SelectSeq(SplitPieces(text, <<>>), LAMBDA p : Len(Trim(p)) > 0)

\* text.replace(/\s+/g, ' '), before the trim of normalizeText
RECURSIVE CollapseSpaces(_)
CollapseSpaces(text) ==
    IF text = <<>> THEN <<>>
    ELSE IF IsSpace(Head(text))
         THEN <<" ">> \o CollapseSpaces(TrimLeft(text))
         ELSE <<Head(text)>> \o CollapseSpaces(Tail(text))

\* function normalizeText(text)
normalizeText(text) == Trim(CollapseSpaces(text))

\* the speaker labels (顧客|店員)
SpeakerLabels == {<<"KO", "KYAKU">>, <<"TEN", "IN">>}

Colons == {"FCOLON", ":"}

\* /^(顧客|店員)[：:]?$/.test(t)
IsLabelOnly(t) ==
    \/ t \in SpeakerLabels
    \/ Len(t) = 3 /\ Slice(t, 1, 2) \in SpeakerLabels /\ t[3] \in Colons

\* t.replace(/^(顧客|店員)[：:]\s*/, '')
StripLabel(t) ==
    IF Len(t) >= 3 /\ Slice(t, 1, 2) \in SpeakerLabels /\ t[3] \in Colons
    THEN TrimLeft(Slice(t, 4, Len(t)))
    ELSE t

\* t.replace(/^[\s\.\-…]+/, '')
RECURSIVE StripLeadingMarks(_)
StripLeadingMarks(t) ==
    IF t # <<>> /\ (IsSpace(Head(t)) \/ Head(t) \in {".", "-", "HELLIP"})
    THEN StripLeadingMarks(Tail(t)) ELSE t

\* t.replace(/[。．！？]+$/, '')
RECURSIVE StripTrailingStops(_)
StripTrailingStops(t) ==
    IF t # <<>> /\ t[Len(t)] \in {"MARU", "FDOT", "FEXC", "FQ"}
    THEN StripTrailingStops(Slice(t, 1, Len(t) - 1)) ELSE t

\* const cleanedSentence
cleanedSentence(trimmed) ==
    Trim(StripTrailingStops(StripLeadingMarks(StripLabel(trimmed))))

\* const searchSentence = cleanedSentence || trimmedSentence
searchSentence(trimmed) ==
    IF cleanedSentence(trimmed) # <<>> THEN cleanedSentence(trimmed)
    ELSE trimmed

\* const patterns = [...]: the three patterns of one sentence, in order
patterns(trimmed) ==
    LET escapedSentence == EscapeRegExp(normalizeText(searchSentence(trimmed)))
    IN  << RegExpAtoms(escapedSentence),
           RegExpAtoms(WsStar \o escapedSentence \o WsStar),
           RegExpAtoms(ReplaceSpaceRuns(escapedSentence)) >>

\* the decimal digits of a forEach index
RECURSIVE Digits(_)
Digits(n) ==
    LET d == <<"0", "1", "2", "3", "4", "5", "6", "7", "8", "9">>[(n % 10) + 1]
    IN  IF n < 10 THEN <<d>> ELSE Digits(n \div 10) \o <<d>>

TargetId == <<"h", "i", "g", "h", "l", "i", "g", "h", "t", "-",
              "t", "a", "r", "g", "e", "t">>

\* const highlightId = index === 0 ? 'highlight-target' : `highlight-${index}`
highlightId(index) ==
    IF index = 0 THEN TargetId
    ELSE <<"h", "i", "g", "h", "l", "i", "g", "h", "t", "-">> \o Digits(index)

\* <span class="highlight" id="...">
SpanOpen(id) ==
    <<"<", "s", "p", "a", "n", " ", "c", "l", "a", "s", "s", "=", "QUOT",
      "h", "i", "g", "h", "l", "i", "g", "h", "t", "QUOT", " ",
      "i", "d", "=", "QUOT">> \o id \o <<"QUOT", ">">>

SpanClose == <<"<", "/", "s", "p", "a", "n", ">">>

\* <span class="highlight" id="highlight-target">
TargetOpen == SpanOpen(TargetId)

\* the first pattern of ps, from the k-th on, that tests true on text; 0 if none
RECURSIVE FirstPattern(_, _, _)
FirstPattern(ps, k, text) ==
    IF k > Len(ps) THEN 0
    ELSE IF RegExpTest(ps[k], text) THEN k
    ELSE FirstPattern(ps, k + 1, text)

\* One turn of sentences.forEach((sentence, index) => ...): acc is
\* [text |-> highlightedText, found |-> foundMatch]
SentenceStep(sentence, index, acc) ==
    LET trimmedSentence == Trim(sentence)
    IN  IF Len(trimmedSentence) < 3 \/ IsLabelOnly(trimmedSentence) THEN acc
        ELSE LET ps == patterns(trimmedSentence)
                 k  == FirstPattern(ps, 1, acc.text)
             IN  IF k = 0 THEN acc
                 ELSE [text  |-> ReplaceFrom(ps[k], acc.text, 1,
                                             SpanOpen(highlightId(index)),
                                             <<>>, SpanClose, TRUE),
                       found |-> TRUE]

RECURSIVE ForEachSentence(_, _, _)
ForEachSentence(sentences, index, acc) ==
    IF index >= Len(sentences) THEN acc
    ELSE ForEachSentence(sentences, index + 1,
                         SentenceStep(sentences[index + 1], index, acc))

\* the else branch of highlightSnippet: the whole snippet, white space
\* tolerant, every match replaced by a span that holds the snippet itself
fallbackPattern(snippet) == RegExpAtoms(ReplaceSpaceRuns(EscapeRegExp(snippet)))

fallbackReplace(snippet, textContent) ==
    ReplaceFrom(fallbackPattern(snippet), textContent, 1,
                TargetOpen, snippet, SpanClose, FALSE)

-----------------------------------------------------------------------------
(* JSON values: json.loads on the Python side, results_json in the script *)

JNull == [t |-> "null", none |-> 0]

JInt(n) == [t |-> "int", num |-> n]

\* a float: sign, whole part and fraction digits, 85.5 is <<FALSE, 85, <<"5">>>>
JReal(neg, whole, frac) == [t |-> "real", parts |-> <<neg, whole, frac>>]

JBool(b) == [t |-> "bool", flag |-> b]

\* the float is 0.0 or -0.0
RealIsZero(r) == r[2] = 0 /\ \A i \in 1..Len(r[3]) : r[3][i] = "0"

JStr(chars) == [t |-> "str", chars |-> chars]

JArr(items) == [t |-> "arr", items |-> items]

\* fields: a function from field names to JSON values
JObj(fields) == [t |-> "obj", fields |-> fields]

\* Python truth value: `if results:`
PyTruthy(j) ==
    CASE j.t = "null" -> FALSE
      [] j.t = "int"  -> j.num # 0
      [] j.t = "real" -> ~RealIsZero(j.parts)
      [] j.t = "bool" -> j.flag
      [] j.t = "str"  -> j.chars # <<>>
      [] j.t = "arr"  -> j.items # <<>>
      [] j.t = "obj"  -> DOMAIN j.fields # {}

HasField(j, name) == j.t = "obj" /\ name \in DOMAIN j.fields

\* r["status"] evaluates without KeyError / TypeError
HasStatus(j) == HasField(j, "status")

\* Lines 524-557 and 567: the page reaches components.html(...) only if the
\* text and the results are truthy and the summary's r["status"] raised for
\* no element
PageRenders(text, results) ==
    /\ text # <<>>
    /\ PyTruthy(results)
    /\ results.t = "arr"
    /\ \A i \in 1..Len(results.items) : HasStatus(results.items[i])

\* textContainer.innerHTML as read back: in text, &quot; and &#x27;
\* serialize as the characters themselves, &amp; &lt; &gt; as written, and
\* an ampersand that starts no character reference (one cut off from its
\* name by inserted markup) as &amp;
InnerHTML(s) ==
    IF \A i \in 1..Len(s) : s[i] # "&" THEN s ELSE
    LET quot(i) == StartsWithAt(s, i, EscapeChar("QUOT"))
        apos(i) == StartsWithAt(s, i, EscapeChar("APOS"))
        kept(i) == \E c \in {"&", "<", ">"} : StartsWithAt(s, i, EscapeChar(c))
        inside(i) == \E j \in Max(1, i - 5)..(i - 1) : quot(j) \/ apos(j)
    IN  Concat([i \in 1..Len(s) |->
                  IF quot(i) THEN <<"QUOT">>
                  ELSE IF apos(i) THEN <<"APOS">>
                  ELSE IF inside(i) THEN <<>>
                  ELSE IF s[i] = "&" /\ ~kept(i) THEN EscapeChar("&")
                  ELSE <<s[i]>>])

\* line 283: the container as first rendered
OriginalView(text) == InnerHTML(RenderedText(text))

\* the view after restoreText()
RestoredView(text) == InnerHTML(restoreText(text))

SpanStart == <<"<", "s", "p", "a", "n">>

HasMarkup(v) == \E i \in 1..Len(v) : StartsWithAt(v, i, SpanStart)

\* HasTarget gone wrong: the callback takes the element to be there
targetAssumed(v) == TRUE

\* document.getElementById('highlight-target') finds an element
HasTarget(v) == \E i \in 1..Len(v) : StartsWithAt(v, i, TargetOpen)

\* Lines 339-382 and 404-414 on the text the container holds: the clause
\* loop, then the whole-snippet fallback.  path is "none" when nothing
\* matched; text is the markup to assign to innerHTML.
locate(snippet, textContent) ==
    LET acc == ForEachSentence(splitIntoSentences(snippet), 0,
                               [text |-> textContent, found |-> FALSE])
    IN  IF acc.found THEN [path |-> "clause", text |-> acc.text]
        ELSE IF RegExpTest(fallbackPattern(snippet), textContent)
        THEN [path |-> "fallback",
              text |-> fallbackReplace(snippet, textContent)]
        ELSE [path |-> "none", text |-> textContent]

\* restoreBeforeApply gone wrong: the restore of line 336 left out
restoreSkipped(text, v) == v

\* line 336: restoreText() before a new highlight is applied; the text the
\* matching then reads back (const textContent = textContainer.innerHTML)
restoreBeforeApply(text, v) == RestoredView(text)

\* clearedScroll gone wrong: the offset is not put back, the view is at 0
clearedScrollLost(currentScroll) == 0

\* line 331: textContainer.scrollTop = currentScroll
clearedScroll(currentScroll) == currentScroll

\* function highlightSnippet(snippet), called with the view v, the active
\* key cur and the scroll offset at the time of the call.  The result holds
\* the new view, key and offset, whether a scroll callback was scheduled
\* (setTimeout), and the outcome.
highlightSnippet(snippet, text, v, cur, scroll) ==
    IF snippet = <<>>
    THEN [view |-> v, cur |-> cur, scrollTop |-> scroll, timer |-> FALSE,
          outcome |-> "Ignored", path |-> "none"]
    ELSE IF cur = snippet
    THEN [view |-> RestoredView(text), cur |-> Null,
          scrollTop |-> clearedScroll(scroll), timer |-> FALSE,
          outcome |-> "Cleared", path |-> "none"]
    ELSE LET found == locate(snippet, restoreBeforeApply(text, v))
         IN  IF found.path = "none"
             THEN [view |-> found.text, cur |-> cur, scrollTop |-> scroll,
                   timer |-> FALSE, outcome |-> "NotFound", path |-> "none"]
             ELSE [view |-> InnerHTML(found.text), cur |-> snippet,
                   scrollTop |-> scroll, timer |-> (found.path = "clause"),
                   outcome |-> "Applied", path |-> found.path]

-----------------------------------------------------------------------------
(* The result cards and their buttons (createResultCards) *)

\* JavaScript truth value of result.snippet
JsTruthy(j) ==
    CASE j.t = "null" -> FALSE
      [] j.t = "int"  -> j.num # 0
      [] j.t = "real" -> ~RealIsZero(j.parts)
      [] j.t = "bool" -> j.flag
      [] j.t = "str"  -> j.chars # <<>>
      [] OTHER        -> TRUE

\* result.snippet.replace(/'/g, "\\'")
EscapeApos(s) ==
    Concat([i \in 1..Len(s) |->
              IF s[i] = "APOS" THEN <<"BSL", "APOS">> ELSE <<s[i]>>])

\* The value of the string literal '...' of the onclick attribute whose
\* source text is s; <<"ERR">> when the handler does not parse: a double
\* quote ends the attribute, a bare quote or line break ends the literal.
RECURSIVE StringLiteralValue(_)
StringLiteralValue(s) ==
    IF s = <<>> THEN <<>>
    ELSE IF Head(s) \in {"QUOT", "APOS", "NL", "CR"} THEN <<"ERR">>
    ELSE IF Head(s) = "BSL"
         THEN IF Len(s) = 1 THEN <<"ERR">>
              ELSE LET v == EscapeValue(s[2])
                       r == StringLiteralValue(Slice(s, 3, Len(s)))
                   IN  IF v = <<"ERR">> \/ r = <<"ERR">> THEN <<"ERR">>
                       ELSE v \o r
    ELSE LET r == StringLiteralValue(Tail(s))
         IN  IF r = <<"ERR">> THEN <<"ERR">> ELSE <<Head(s)>> \o r

\* the argument highlightSnippet receives from the button of a card
OnclickArg(snippet) == StringLiteralValue(EscapeApos(snippet))

\* building card k throws (a truthy snippet that is no string has no
\* replace method), which ends results.forEach
CardThrows(result) ==
    /\ HasField(result, "snippet")
    /\ JsTruthy(result.fields.snippet)
    /\ result.fields.snippet.t # "str"

\* card k was appended and holds a button
HasButton(results, k) ==
    /\ k \in 1..Len(results.items)
    /\ \A i \in 1..k : ~CardThrows(results.items[i])
    /\ HasField(results.items[k], "snippet")
    /\ JsTruthy(results.items[k].fields.snippet)

\* the snippet a click on the button of card k passes to highlightSnippet
CardArg(results, k) == OnclickArg(results.items[k].fields.snippet.chars)

-----------------------------------------------------------------------------
(* Bounds and inputs of the highlight session *)

\* longest document of the session specification
MaxDocLen == 3

\* most scroll callbacks pending at a time
MaxPending == 1

DocAlphabet == {"a", " ", "BSL"}

Documents == Texts(DocAlphabet, 1, MaxDocLen)

\* the snippets of the cards: shorter than the three characters a clause
\* needs, and long enough for a clause
SessionSnippets ==
    {<<"a">>, <<"a", "a">>, <<"a", "a", "a">>, <<"A", "a", "a">>}

\* offsets the user scrolls to
ScrollPositions == {120}

\* layout of the scroll target: offsetTop and clientHeight (even numbers)
OffsetTops == {0, 500}

ElementHeights == {20}

\* DISPLAY_HEIGHT = 650
DISPLAY_HEIGHT == 650

\* #text-container { padding: 20px }
ContainerPadding == 20

\* textContainer.clientHeight: the height and the padding above and below
clientHeight == DISPLAY_HEIGHT + 2 * ContainerPadding

RECURSIVE SetToSeq(_)
SetToSeq(S) ==
    IF S = {} THEN <<>>
    ELSE LET x == CHOOSE x \in S : TRUE IN <<x>> \o SetToSeq(S \ {x})

\* one element of "compliance_results" as the prompt asks for it
Finding(item_no, status, confidence, snippet) ==
    JObj([item_no    |-> JInt(item_no),
          item_name  |-> JStr(<<"n">>),
          status     |-> JStr(<<status>>),
          confidence |-> JInt(confidence),
          snippet    |-> JStr(snippet),
          reason     |-> JStr(<<"r">>)])

\* the batch the session specification renders: one card per snippet
SessionBatch ==
    LET ss == SetToSeq(SessionSnippets)
    IN  JArr([i \in 1..Len(ss) |-> Finding(i, "CIRCLE", 100, ss[i])])

-----------------------------------------------------------------------------
(* The highlight session: state and actions *)

NoToggle == [outcome |-> "None", path |-> "none", plainBefore |-> TRUE,
             scrollBefore |-> 0]

NoRun == [kind |-> "none", form |-> "none", sent |-> JNull, value |-> JNull,
          kept |-> TRUE]

\* the script's state when the component is mounted for (text, results)
Mounted(text, results) ==
    /\ view = (IF PageRenders(text, results) THEN OriginalView(text) ELSE <<>>)
    /\ currentHighlight = Null
    /\ lastScrollPosition = 0
    /\ scrollTop = 0
    /\ timers = 0
    /\ last = NoToggle

Init ==
    /\ source_text \in Documents
    /\ uploaded_file = source_text
    /\ compliance_results = SessionBatch
    /\ Mounted(source_text, compliance_results)
    /\ run = NoRun

\* the script runs: the page rendered the component and the script parsed
ScriptLive ==
    /\ PageRenders(source_text, compliance_results)
    /\ ScriptRuns(source_text)

\* A click on the button of card k: onclick="highlightSnippet('...')"
Toggle(k) ==
    /\ ScriptLive
    /\ HasButton(compliance_results, k)
    /\ CardArg(compliance_results, k) # <<"ERR">>
    /\ \E r \in {highlightSnippet(CardArg(compliance_results, k), source_text,
                                  view, currentHighlight, scrollTop)} :
           /\ r.timer => timers < MaxPending
           /\ view' = r.view
           /\ currentHighlight' = r.cur
           /\ scrollTop' = r.scrollTop
           /\ timers' = IF r.timer THEN timers + 1 ELSE timers
           /\ last' = [outcome      |-> r.outcome,
                       path         |-> r.path,
                       plainBefore  |-> ~HasMarkup(view),
                       scrollBefore |-> IF r.outcome = "Applied"
                                        THEN scrollTop
                                        ELSE last.scrollBefore]
    /\ UNCHANGED <<uploaded_file, source_text, compliance_results,
                   lastScrollPosition, run>>

\* The user scrolls the container to offset y; the scroll listener
\* (lines 305-307) stores it
UserScroll(y) ==
    /\ ScriptLive
    /\ y # scrollTop
    /\ scrollTop' = y
    /\ lastScrollPosition' = y
    /\ UNCHANGED <<uploaded_file, source_text, compliance_results, view,
                   currentHighlight, timers, last, run>>

\* The callback of setTimeout(..., 50) runs, the target laid out at
\* offsetTop top with clientHeight h; scrollTo fires the scroll listener
ScrollCallback(top, h) ==
    /\ timers > 0
    /\ timers' = timers - 1
    /\ IF HasTarget(view)
       THEN LET targetScrollTop == top - (clientHeight \div 2) + (h \div 2)
            IN  /\ scrollTop' = Max(0, targetScrollTop)
                /\ lastScrollPosition' = Max(0, targetScrollTop)
       ELSE UNCHANGED <<scrollTop, lastScrollPosition>>
    /\ UNCHANGED <<uploaded_file, source_text, compliance_results, view,
                   currentHighlight, last, run>>

Next ==
    \/ \E k \in 1..Len(compliance_results.items) : Toggle(k)
    \/ \E y \in ScrollPositions : UserScroll(y)
    \/ \E top \in OffsetTops, h \in ElementHeights : ScrollCallback(top, h)

Spec == Init /\ [][Next]_vars

-----------------------------------------------------------------------------
(* Properties of the highlight session *)

Cards == 1..Len(compliance_results.items)

\* the snippet can be located in the document as first rendered
Locatable(snippet) ==
    locate(snippet, OriginalView(source_text)).path # "none"

\* C1 (as claimed): from an unhighlighted view, the toggle of a locatable
\* snippet is Applied; the next toggle of the same snippet is Cleared and
\* leaves the view equal to the original escaped document and the active key
\* null, whichever path applied the highlight.
C1_ToggleTwiceRestores ==
    [][\A k \in Cards :
         Toggle(k) =>
           LET s == CardArg(compliance_results, k)
           IN  /\ (~HasMarkup(view) /\ Locatable(s))
                    => last'.outcome = "Applied"
               /\ (last.outcome = "Applied" /\ last.plainBefore
                   /\ s = currentHighlight)
                    => /\ last'.outcome = "Cleared"
                       /\ view' = OriginalView(source_text)
                       /\ currentHighlight' = Null]_vars

\* C2 (as claimed): a toggle of the active key leaves the viewport at the
\* offset it had before that highlight was applied.
C2_ClearRestoresOffsetBeforeHighlight ==
    [][\A k \in Cards :
         (Toggle(k) /\ CardArg(compliance_results, k) = currentHighlight)
           => scrollTop' = last.scrollBefore]_vars

\* C2 (amended): a toggle of the active key leaves the viewport at the offset
\* it had when that call began, the centering scroll of the highlight
\* included.
C2_ClearKeepsCurrentOffset ==
    [][\A k \in Cards :
         (Toggle(k) /\ CardArg(compliance_results, k) = currentHighlight)
           => scrollTop' = scrollTop]_vars

\* C2 witness: a highlight was cleared after its centering scroll had moved
\* the viewport, and the viewport is still at the centered offset.
C2_Witness ==
    /\ last.outcome = "Cleared"
    /\ scrollTop # last.scrollBefore
    /\ scrollTop \notin ScrollPositions

\* C3: a toggle of a key other than the active one whose snippet is found
\* neither by a clause nor by the fallback is NotFound: the active key keeps
\* its value and the view carries no highlight markup.
C3_NotFoundFrame ==
    [][\A k \in Cards :
         LET s == CardArg(compliance_results, k)
         IN  (/\ Toggle(k)
              /\ s # currentHighlight
              /\ locate(s, RestoredView(source_text)).path = "none")
               => /\ last'.outcome = "NotFound"
                  /\ currentHighlight' = currentHighlight
                  /\ ~HasMarkup(view')]_vars

\* C3 witness: a NotFound toggle on a view that carried a highlight; the key
\* of that highlight is still the active key.
C3_Witness ==
    /\ last.outcome = "NotFound"
    /\ ~last.plainBefore
    /\ currentHighlight # Null
    /\ ~HasMarkup(view)

\* C4: the view holds the markup of at most one finding: it is free of
\* markup, or it is the restored text with the markup of the active key alone.
C4_OneFindingHighlighted ==
    HasMarkup(view) =>
      /\ currentHighlight # Null
      /\ view = InnerHTML(locate(currentHighlight,
                                 RestoredView(source_text)).text)

\* C4 witness: a finding was highlighted while another one's markup was in
\* the view.
C4_Witness ==
    /\ last.outcome = "Applied"
    /\ ~last.plainBefore
    /\ HasMarkup(view)

-----------------------------------------------------------------------------
(* json.loads, as check_compliance uses it (line 110) *)

\* the spelling of the field names the page and the prompt use
FieldSpelling ==
    [compliance_results |-> <<"c", "o", "m", "p", "l", "i", "a", "n", "c", "e",
                              "_", "r", "e", "s", "u", "l", "t", "s">>,
     results            |-> <<"r", "e", "s", "u", "l", "t", "s">>,
     item_no            |-> <<"i", "t", "e", "m", "_", "n", "o">>,
     item_name          |-> <<"i", "t", "e", "m", "_", "n", "a", "m", "e">>,
     status             |-> <<"s", "t", "a", "t", "u", "s">>,
     confidence         |-> <<"c", "o", "n", "f", "i", "d", "e", "n", "c", "e">>,
     snippet            |-> <<"s", "n", "i", "p", "p", "e", "t">>,
     reason             |-> <<"r", "e", "a", "s", "o", "n">>]

\* the field a key names; keys outside the table share the name "other"
KeyName(chars) ==
    IF \E n \in DOMAIN FieldSpelling : FieldSpelling[n] = chars
    THEN CHOOSE n \in DOMAIN FieldSpelling : FieldSpelling[n] = chars
    ELSE "other"

\* the character at index i, "EOF" past the end
At(t, i) == IF i \in 1..Len(t) THEN t[i] ELSE "EOF"

\* json.decoder.WHITESPACE
JsonWs == {" ", "TAB", "NL", "CR"}

RECURSIVE SkipWs(_, _)
SkipWs(t, i) == IF At(t, i) \in JsonWs THEN SkipWs(t, i + 1) ELSE i

DecDigits == {"0", "1", "2", "3", "4", "5", "6", "7", "8", "9"}

\* the index after the run of digits that starts at i
RECURSIVE DigitRunEnd(_, _)
DigitRunEnd(t, i) ==
    IF At(t, i) \in DecDigits THEN DigitRunEnd(t, i + 1) ELSE i

DigitValue == [c \in DecDigits |-> CHOOSE d \in 0..9 : Digits(d) = <<c>>]

\* int(digits)
RECURSIVE Decimal(_)
Decimal(ds) ==
    IF ds = <<>> THEN 0
    ELSE 10 * Decimal(Slice(ds, 1, Len(ds) - 1)) + DigitValue[ds[Len(ds)]]

NoParse == [ok |-> FALSE, v |-> JNull, next |-> 0]

Parsed(v, next) == [ok |-> TRUE, v |-> v, next |-> next]

\* json.decoder.BACKSLASH
JsonEscapes ==
    [c \in {"QUOT", "BSL", "/", "b", "f", "n", "r", "t"} |->
       CASE c = "b" -> "BS"
         [] c = "f" -> "FF"
         [] c = "n" -> "NL"
         [] c = "r" -> "CR"
         [] c = "t" -> "TAB"
         [] OTHER   -> c]

\* characters below 0x20, which strict mode refuses inside a string
ControlChars == {"NL", "CR", "TAB", "BS", "FF", "VT", "NUL"}

\* json.decoder.scanstring from index i, the index after the opening quote
\* (\uXXXX escapes are outside the alphabet of the model and end the parse)
RECURSIVE scanstring(_, _, _)
scanstring(t, i, acc) ==
    LET c == At(t, i)
    IN  IF c = "EOF" \/ c \in ControlChars THEN NoParse
        ELSE IF c = "QUOT" THEN Parsed(acc, i + 1)
        ELSE IF c = "BSL"
             THEN IF At(t, i + 1) \in DOMAIN JsonEscapes
                  THEN scanstring(t, i + 2,
                                  Append(acc, JsonEscapes[At(t, i + 1)]))
                  ELSE NoParse
        ELSE scanstring(t, i + 1, Append(acc, c))

\* json.scanner.NUMBER_RE at index i: (-?(?:0|[1-9]\d*))(\.\d+)?
\* (exponents are outside the alphabet of the model)
match_number(t, i) ==
    LET neg     == At(t, i) = "-"
        s       == IF neg THEN i + 1 ELSE i
        intEnd  == IF At(t, s) = "0" THEN s + 1 ELSE DigitRunEnd(t, s)
        hasFrac == At(t, intEnd) = "." /\ At(t, intEnd + 1) \in DecDigits
        fracEnd == DigitRunEnd(t, intEnd + 1)
        whole   == Decimal(Slice(t, s, intEnd - 1))
    IN  IF At(t, s) \notin DecDigits THEN NoParse
        ELSE IF hasFrac
        THEN Parsed(JReal(neg, whole, Slice(t, intEnd + 1, fracEnd - 1)),
                    fracEnd)
        ELSE Parsed(JInt(IF neg THEN 0 - whole ELSE whole), intEnd)

\* dict item assignment: a repeated key keeps the last value
PutPair(pairs, name, value) ==
    [k \in DOMAIN pairs \cup {name} |->
       IF k = name THEN value ELSE pairs[k]]

RECURSIVE scan_once(_, _)
RECURSIVE ArrayItems(_, _, _)
RECURSIVE ObjectPairs(_, _, _)

\* json.decoder.JSONArray from index i, the index after "["
JSONArray(t, i) ==
    LET j == SkipWs(t, i)
    IN  IF At(t, j) = "]" THEN Parsed(JArr(<<>>), j + 1)
        ELSE ArrayItems(t, j, <<>>)

\* json.decoder.JSONObject from index i, the index after "{"
JSONObject(t, i) ==
    LET j == SkipWs(t, i)
    IN  IF At(t, j) = "}" THEN Parsed(JObj(<<>>), j + 1)
        ELSE IF At(t, j) # "QUOT" THEN NoParse
        ELSE ObjectPairs(t, j + 1, <<>>)

\* the loop of JSONArray: a value, then "]" or "," and the next value
ArrayItems(t, i, acc) ==
    LET r == scan_once(t, i)
        k == SkipWs(t, r.next)
    IN  IF ~r.ok THEN NoParse
        ELSE IF At(t, k) = "]" THEN Parsed(JArr(Append(acc, r.v)), k + 1)
        ELSE IF At(t, k) = ","
        THEN ArrayItems(t, SkipWs(t, k + 1), Append(acc, r.v))
        ELSE NoParse

\* the loop of JSONObject from the index after the opening quote of a key
ObjectPairs(t, i, acc) ==
    LET key   == scanstring(t, i, <<>>)
        k     == SkipWs(t, key.next)
        r     == scan_once(t, SkipWs(t, k + 1))
        m     == SkipWs(t, r.next)
        n     == SkipWs(t, m + 1)
    IN  IF ~key.ok \/ At(t, k) # ":" THEN NoParse
        ELSE IF ~r.ok THEN NoParse
        ELSE IF At(t, m) = "}"
        THEN Parsed(JObj(PutPair(acc, KeyName(key.v), r.v)), m + 1)
        ELSE IF At(t, m) = "," /\ At(t, n) = "QUOT"
        THEN ObjectPairs(t, n + 1, PutPair(acc, KeyName(key.v), r.v))
        ELSE NoParse

\* json.scanner.py_make_scanner._scan_once at index i
scan_once(t, i) ==
    LET c == At(t, i)
    IN  IF c = "QUOT"
        THEN LET r == scanstring(t, i + 1, <<>>)
             IN  IF r.ok THEN Parsed(JStr(r.v), r.next) ELSE NoParse
        ELSE IF c = "{" THEN JSONObject(t, i + 1)
        ELSE IF c = "[" THEN JSONArray(t, i + 1)
        ELSE IF StartsWithAt(t, i, <<"n", "u", "l", "l">>)
        THEN Parsed(JNull, i + 4)
        ELSE IF StartsWithAt(t, i, <<"t", "r", "u", "e">>)
        THEN Parsed(JBool(TRUE), i + 4)
        ELSE IF StartsWithAt(t, i, <<"f", "a", "l", "s", "e">>)
        THEN Parsed(JBool(FALSE), i + 5)
        ELSE match_number(t, i)

\* json.loads(text): the value, or JSONDecodeError (no value, or extra data
\* after the value)
json_loads(t) ==
    LET r == scan_once(t, SkipWs(t, 1))
    IN  IF r.ok /\ SkipWs(t, r.next) = Len(t) + 1
        THEN [exc |-> "none", value |-> r.v]
        ELSE [exc |-> "JSONDecodeError", value |-> JNull]

-----------------------------------------------------------------------------
(* The text the model emits: JSON as the prompt asks for it *)

\* the order in which the fields of an object are written
FieldOrder ==
    <<"compliance_results", "results", "item_no", "item_name", "status",
      "confidence", "snippet", "reason">>

\* a string between double quotes
EmitString(chars) ==
    <<"QUOT">>
    \o Concat([i \in 1..Len(chars) |->
                 CASE chars[i] = "QUOT" -> <<"BSL", "QUOT">>
                   [] chars[i] = "BSL"  -> <<"BSL", "BSL">>
                   [] chars[i] = "NL"   -> <<"BSL", "n">>
                   [] OTHER             -> <<chars[i]>>])
    \o <<"QUOT">>

EmitInt(n) == IF n < 0 THEN <<"-">> \o Digits(0 - n) ELSE Digits(n)

RECURSIVE Emit(_)
Emit(j) ==
    CASE j.t = "null" -> <<"n", "u", "l", "l">>
      [] j.t = "bool" -> IF j.flag THEN <<"t", "r", "u", "e">>
                         ELSE <<"f", "a", "l", "s", "e">>
      [] j.t = "int"  -> EmitInt(j.num)
      [] j.t = "real" -> (IF j.parts[1] THEN <<"-">> ELSE <<>>)
                         \o Digits(j.parts[2]) \o <<".">> \o j.parts[3]
      [] j.t = "str"  -> EmitString(j.chars)
      [] j.t = "arr"  ->
           <<"[">>
           \o Concat([i \in 1..Len(j.items) |->
                        (IF i > 1 THEN <<",", " ">> ELSE <<>>) \o Emit(j.items[i])])
           \o <<"]">>
      [] j.t = "obj"  ->
           LET keys == SelectSeq(FieldOrder, LAMBDA k : k \in DOMAIN j.fields)
           IN  <<"{">>
               \o Concat([i \in 1..Len(keys) |->
                            (IF i > 1 THEN <<",", "NL", " ">> ELSE <<>>)
                            \o EmitString(FieldSpelling[keys[i]])
                            \o <<":", " ">> \o Emit(j.fields[keys[i]])])
               \o <<"}">>

OpenFence == <<"BT", "BT", "BT", "j", "s", "o", "n">>

CloseFence == <<"BT", "BT", "BT">>

\* the forms in which the model hands the JSON over
CleanForms == {"bare", "fenced"}

BrokenForms == {"cut", "fencedCut", "prose", "plainFence"}

\* response.text for the value the model means to send, in a form
ResponseText(sent, form) ==
    LET json == Emit(sent)
        half == Slice(json, 1, Len(json) \div 2)
    IN  CASE form = "bare"       -> json
          [] form = "fenced"     -> OpenFence \o <<"NL">> \o json
                                    \o <<"NL">> \o CloseFence \o <<"NL">>
          [] form = "plainFence" -> CloseFence \o <<"NL">> \o json
                                    \o <<"NL">> \o CloseFence
          [] form = "cut"        -> half
          [] form = "fencedCut"  -> OpenFence \o <<"NL">> \o half
          [] form = "prose"      -> <<"O", "K", ":", " ">> \o json

-----------------------------------------------------------------------------
(* check_compliance (lines 39-117) *)

StartsWith(t, prefix) == StartsWithAt(t, 1, prefix)

EndsWith(t, suffix) ==
    Len(t) >= Len(suffix) /\ StartsWithAt(t, Len(t) - Len(suffix) + 1, suffix)

\* dropOpenFence gone wrong: only the three backticks are cut off
dropBackticksOnly(t) == Slice(t, 4, Len(t))

\* json_text[7:]
dropOpenFence(t) == Slice(t, 8, Len(t))

\* json_text[:-3]
dropCloseFence(t) == Slice(t, 1, Len(t) - 3)

\* lines 104-108: the fences around the JSON are cut off
stripFences(text) ==
    LET json_text == Trim(text)
        opened    == IF StartsWith(json_text, OpenFence)
                     THEN dropOpenFence(json_text) ELSE json_text
    IN  IF EndsWith(opened, CloseFence) THEN dropCloseFence(opened)
        ELSE opened

\* except (json.JSONDecodeError, KeyError), line 112
InnerExcept(exc) == exc \in {"JSONDecodeError", "KeyError"}

\* OuterExcept gone wrong: it handles errors of the decoder only
OuterExceptDecodeOnly(exc) == exc \in {"JSONDecodeError"}

\* except Exception, line 115: every exception class of the model
OuterExcept(exc) ==
    exc \in {"JSONDecodeError", "KeyError", "AttributeError", "ApiError"}

\* lines 110-111: json.loads, then result.get("compliance_results", [])
\* (only a dict has get)
parseAndGet(text) ==
    LET result == json_loads(Trim(stripFences(text)))
    IN  IF result.exc # "none" THEN result
        ELSE IF result.value.t # "obj"
        THEN [exc |-> "AttributeError", value |-> JNull]
        ELSE [exc   |-> "none",
              value |-> IF HasField(result.value, "compliance_results")
                        THEN result.value.fields.compliance_results
                        ELSE JArr(<<>>)]

\* What a call of check_compliance does when the model call raises or hands
\* back response.text: the value returned, whether st.error was shown,
\* whether an exception left the function
check_compliance(response) ==
    LET got == IF response.raises
               THEN [exc |-> "ApiError", value |-> JNull]
               ELSE parseAndGet(response.text)
    IN  IF got.exc = "none"
        THEN [raised |-> FALSE, error |-> FALSE, value |-> got.value]
        ELSE IF ~response.raises /\ InnerExcept(got.exc)
        THEN [raised |-> FALSE, error |-> FALSE, value |-> JArr(<<>>)]
        ELSE IF OuterExcept(got.exc)
        THEN [raised |-> FALSE, error |-> TRUE, value |-> JArr(<<>>)]
        ELSE [raised |-> TRUE, error |-> FALSE, value |-> JNull]

\* installs gone wrong: every returned value is installed
installsAlways(results) == TRUE

\* if results: (line 509)
installs(results) == PyTruthy(results)

-----------------------------------------------------------------------------
(* Bounds and inputs of the analysis run *)

\* most findings in a batch of the analysis specification
MaxBatch == 3

\* the empty text and two documents, so that one can replace the other
AnalysisDocuments == {<<>>, <<"a">>, <<"b">>}

\* findings as the prompt asks for them
FindingPool ==
    {Finding(1, "CIRCLE", 100, <<"a">>), Finding(5, "TRIANGLE", 50, <<>>)}

Batches == Texts(FindingPool, 0, MaxBatch)

\* obj without the field
Without(obj, name) ==
    JObj([k \in DOMAIN obj.fields \ {name} |-> obj.fields[k]])

\* obj with the field set to value
With(obj, name, value) == JObj(PutPair(obj.fields, name, value))

Answer(results) == JObj([compliance_results |-> results])

\* values off the schema that a model can send
OddValues ==
    LET f == Finding(1, "TRIANGLE", 50, <<"a">>)
    IN  { JArr(<<f>>), JInt(5), JStr(<<"a">>), JNull, JObj(<<>>),
          JObj([results |-> JArr(<<f>>)]),
          Answer(JStr(<<"a", "b">>)), Answer(JNull), Answer(f),
          Answer(JInt(5)), Answer(JArr(<<JInt(1)>>)),
          Answer(JArr(<<Without(f, "item_no")>>)),
          Answer(JArr(<<f, Without(f, "item_no")>>)),
          Answer(JArr(<<Without(f, "status")>>)),
          Answer(JArr(<<With(f, "confidence", JInt(150))>>)),
          Answer(JArr(<<With(f, "confidence", JInt(-5))>>)),
          Answer(JArr(<<With(f, "confidence", JReal(FALSE, 85, <<"5">>))>>)) }

\* what model.generate_content does: it raises, or it returns a response
ApiOutcomes ==
    {[raises |-> TRUE, form |-> "none", sent |-> JNull]}
    \cup {[raises |-> FALSE, form |-> f, sent |-> Answer(JArr(b))] :
            f \in CleanForms, b \in Batches}
    \cup {[raises |-> FALSE, form |-> "bare", sent |-> v] : v \in OddValues}
    \cup {[raises |-> FALSE, form |-> f,
           sent |-> Answer(JArr(<<Finding(1, "CIRCLE", 100, <<"a">>)>>))] :
            f \in BrokenForms}

\* check_compliance on every outcome of the model call
Validated ==
    [api \in ApiOutcomes |->
       check_compliance([raises |-> api.raises,
                         text   |-> IF api.raises THEN <<>>
                                    ELSE ResponseText(api.sent, api.form)])]

-----------------------------------------------------------------------------
(* The page: document loads and analysis runs (lines 476-521) *)

\* the component is built anew for (text, results)
Remount(text, results) ==
    /\ view' = (IF PageRenders(text, results) THEN OriginalView(text) ELSE <<>>)
    /\ currentHighlight' = Null
    /\ lastScrollPosition' = 0
    /\ scrollTop' = 0
    /\ timers' = 0
    /\ last' = NoToggle

\* lines 483-487, run by every pass over the page: a file held by the
\* uploader is read into source_text
TextAfterUpload(file, text) == IF file # Null THEN file ELSE text

InitAnalysis ==
    /\ uploaded_file = Null
    /\ source_text = <<>>
    /\ compliance_results = JArr(<<>>)
    /\ Mounted(source_text, compliance_results)
    /\ run = NoRun

\* The user picks a file with content doc
Upload(doc) ==
    /\ uploaded_file' = doc
    /\ source_text' = doc
    /\ run' = NoRun
    /\ Remount(doc, compliance_results)
    /\ UNCHANGED compliance_results

\* The user removes the file from the uploader
RemoveFile ==
    /\ uploaded_file # Null
    /\ uploaded_file' = Null
    /\ run' = NoRun
    /\ Remount(source_text, compliance_results)
    /\ UNCHANGED <<source_text, compliance_results>>

\* A click on the button of the text area holding input_text (lines 497-500)
SetText(input_text) ==
    /\ source_text' = IF input_text # <<>> THEN input_text
                      ELSE TextAfterUpload(uploaded_file, source_text)
    /\ run' = NoRun
    /\ Remount(source_text', compliance_results)
    /\ UNCHANGED <<uploaded_file, compliance_results>>

\* A click on the analysis button (lines 506-521), the model call ending as
\* api says
Analyze(api) ==
    /\ source_text # <<>>
    /\ source_text' = TextAfterUpload(uploaded_file, source_text)
    /\ IF source_text' = <<>>
       THEN /\ run' = NoRun
            /\ UNCHANGED compliance_results
       ELSE \E r \in {Validated[api]} :
              /\ compliance_results' =
                   IF ~r.raised /\ installs(r.value) THEN r.value
                   ELSE compliance_results
              /\ run' = [kind  |-> IF r.raised THEN "validationRaised"
                                   ELSE IF api.raises THEN "callRaised"
                                   ELSE "returned",
                         form  |-> api.form,
                         sent  |-> api.sent,
                         value |-> r.value,
                         kept  |-> compliance_results' = compliance_results]
    /\ Remount(source_text', compliance_results')
    /\ UNCHANGED uploaded_file

NextAnalysis ==
    \/ \E doc \in AnalysisDocuments : Upload(doc)
    \/ RemoveFile
    \/ \E input_text \in AnalysisDocuments : SetText(input_text)
    \/ \E api \in ApiOutcomes : Analyze(api)

SpecAnalysis == InitAnalysis /\ [][NextAnalysis]_vars

-----------------------------------------------------------------------------
(* Properties of the analysis run *)

\* the rubric of the prompt has 20 items
RubricItems == 20

Statuses == {"CIRCLE", "TRIANGLE", "CROSS"}

\* an element as the output format of the prompt describes it
SchemaConforming(e) ==
    /\ e.t = "obj"
    /\ DOMAIN e.fields = {"item_no", "item_name", "status", "confidence",
                          "snippet", "reason"}
    /\ e.fields.item_no.t = "int"
    /\ e.fields.item_name.t = "str"
    /\ e.fields.status.t = "str"
    /\ Len(e.fields.status.chars) = 1
    /\ e.fields.status.chars[1] \in Statuses
    /\ e.fields.confidence.t = "int"
    /\ e.fields.confidence.num \in 0..100
    /\ e.fields.snippet.t = "str"
    /\ e.fields.reason.t = "str"

\* a list whose elements are all records
ListOfRecords(j) ==
    j.t = "arr" /\ \A i \in 1..Len(j.items) : j.items[i].t = "obj"

\* the latest run got text that parses to an object with the field
SentAnswer ==
    /\ run.kind \in {"returned", "validationRaised"}
    /\ run.form \in CleanForms
    /\ HasField(run.sent, "compliance_results")

\* the latest run got a well-formed response with a batch of 0..20
\* schema-conforming findings
SentBatch ==
    /\ SentAnswer
    /\ run.sent.fields.compliance_results.t = "arr"
    /\ Len(run.sent.fields.compliance_results.items) <= RubricItems
    /\ \A i \in 1..Len(run.sent.fields.compliance_results.items) :
         SchemaConforming(run.sent.fields.compliance_results.items[i])

\* the batch of that response
batch == run.sent.fields.compliance_results

\* the latest run failed: the model call raised, or its output was no
\* list of records
FailedRun ==
    \/ run.kind = "callRaised"
    /\ run.kind \in {"returned", "validationRaised"}
       /\ ~(SentAnswer /\ ListOfRecords(batch))

\* C5 (as claimed): a failed run leaves the installed findings as they were,
\* and what is installed is always a list of finding records.
C5_FailedRunInstallsNothing ==
    /\ ListOfRecords(compliance_results)
    /\ FailedRun => run.kept

\* C6 (as claimed): a run that completes with a batch of 0..20 findings
\* leaves exactly that batch installed, the empty batch included.
C6_BatchReplacesWholesale ==
    SentBatch => run.kind = "returned" /\ compliance_results = batch

\* C6 (amended): a run that completes with a non-empty batch leaves exactly
\* that batch installed; a run that completes with the empty batch leaves
\* the installed findings as they were.
C6_NonEmptyBatchReplaces ==
    SentBatch =>
      /\ run.kind = "returned"
      /\ batch.items # <<>> => compliance_results = batch
      /\ batch.items = <<>> => run.kept

\* C6 witness: a run completed with the empty batch while findings were
\* installed, and they still are.
C6_Witness ==
    /\ SentBatch
    /\ batch.items = <<>>
    /\ run.value = JArr(<<>>)
    /\ compliance_results.t = "arr"
    /\ compliance_results.items # <<>>

\* the text of the latest run is no JSON object, or is one without the field
Malformed ==
    /\ run.kind \in {"returned", "validationRaised"}
    /\ \/ run.form \in BrokenForms
       \/ run.sent.t # "obj"
       \/ ~HasField(run.sent, "compliance_results")

\* C7: check_compliance never raises; for text that does not parse to a JSON
\* object, or that lacks compliance_results, it returns the empty list.
C7_ValidationNeverRaises ==
    /\ run.kind # "validationRaised"
    /\ Malformed => run.value = JArr(<<>>)

\* C7 witness: the text was a JSON array, a value without get, and the run
\* returned the empty list.
C7_Witness ==
    /\ run.kind = "returned"
    /\ run.form = "bare"
    /\ run.sent.t = "arr"
    /\ run.sent.items # <<>>
    /\ run.value = JArr(<<>>)

\* confidence brought into 0..100
Clamped(n) == Max(0, Min(100, n))

\* C8 (as claimed): every returned finding has an integer confidence in
\* 0..100, an integer input beyond the range clamped to the nearer end.
C8_ConfidenceClamped ==
    (run.kind = "returned" /\ run.value.t = "arr") =>
      \A i \in 1..Len(run.value.items) :
        LET e == run.value.items[i]
        IN  HasField(e, "confidence") =>
              /\ e.fields.confidence.t = "int"
              /\ e.fields.confidence.num \in 0..100
              /\ (/\ SentAnswer
                  /\ batch.t = "arr"
                  /\ Len(batch.items) = Len(run.value.items)
                  /\ HasField(batch.items[i], "confidence")
                  /\ batch.items[i].fields.confidence.t = "int")
                   => e.fields.confidence.num =
                        Clamped(batch.items[i].fields.confidence.num)

\* C9: a well-formed response with n schema-conforming elements returns
\* exactly these n findings in their order, repeated item numbers kept and
\* none added, with or without the json fence around the text.
C9_OrderAndCountPreserved ==
    SentBatch => run.kind = "returned" /\ run.value = batch

\* C9 witness: the fenced response with items 1, 5, 5 returned three
\* findings.
C9_Witness ==
    /\ SentBatch
    /\ run.form = "fenced"
    /\ Len(batch.items) = 3
    /\ [i \in 1..3 |-> batch.items[i].fields.item_no.num] = <<1, 5, 5>>
    /\ Len(run.value.items) = 3

\* C10 (as claimed): every returned finding, and so every installed one,
\* has an item_no.
C10_MissingItemNoDropped ==
    /\ (run.kind = "returned" /\ run.value.t = "arr") =>
         \A i \in 1..Len(run.value.items) :
           HasField(run.value.items[i], "item_no")
    /\ compliance_results.t = "arr" =>
         \A i \in 1..Len(compliance_results.items) :
           HasField(compliance_results.items[i], "item_no")

-----------------------------------------------------------------------------
(* The highlight session with one finding: documents and snippets that    *)
(* exercise the clause loop and the fallback of highlightSnippet          *)

\* documents with upper case, an escaped character, a line break, a
\* sentence delimiter and a repeated clause
LocateDocuments ==
    { <<"a">>, <<"A">>, <<"a", "a", "a">>, <<"b", "b", "b">>,
      <<"a", "a", "a", " ", "a", "a", "a">>,
      <<"a", "a", "a", "MARU", "b", "b", "b">>,
      <<"a", "&", "b">>, <<"a", "NL", "b">>, <<"&", "NL", "b">> }

\* snippets the model may return for them: blank, shorter than a clause,
\* one clause, several clauses, with an escaped character, with a space
\* where the document has a line break
LocateSnippets ==
    { <<" ">>, <<"a">>, <<"a", "a", "a">>,
      <<"a", "a", "a", "MARU", "a", "a", "a">>,
      <<"a", "a", "MARU", "b", "b", "b">>,
      <<"a", "a", "a", "MARU", "b", "b", "b">>,
      <<"a", "&", "b">>, <<"a", " ", "b">>, <<"&", " ", "b">> }

\* the page rendered with a document and one finding
InitLocate ==
    /\ source_text \in LocateDocuments
    /\ uploaded_file = source_text
    /\ \E s \in LocateSnippets :
           compliance_results = JArr(<<Finding(1, "CIRCLE", 100, s)>>)
    /\ Mounted(source_text, compliance_results)
    /\ run = NoRun

SpecLocate == InitLocate /\ [][Next]_vars

-----------------------------------------------------------------------------
(* Properties of locating and tagging *)

\* C11 (as claimed): a toggle whose snippet is empty or all white space
\* finds nothing: the view holds no highlight markup after it and the active
\* key is not set to that snippet.
C11_BlankSnippetFindsNothing ==
    [][\A k \in Cards :
          (Toggle(k) /\ Trim(CardArg(compliance_results, k)) = <<>>)
          => (~HasMarkup(view') /\
              currentHighlight' # CardArg(compliance_results, k))]_vars

\* s occurs in text as a substring
Occurs(s, text) == \E i \in 1..Len(text) : StartsWithAt(text, i, s)

\* first position from pos on where pat starts in v, 0 when there is none
FirstAt(v, pos, pat) ==
    IF \E j \in pos..Len(v) : StartsWithAt(v, j, pat)
    THEN CHOOSE j \in pos..Len(v) :
             /\ StartsWithAt(v, j, pat)
             /\ \A m \in pos..(j - 1) : ~StartsWithAt(v, m, pat)
    ELSE 0

\* the texts the highlight spans of the view enclose
SpanTexts(v) ==
    { Slice(v, FirstAt(v, i, <<">">>) + 1, FirstAt(v, i, SpanClose) - 1) :
        i \in { j \in 1..Len(v) : StartsWithAt(v, j, SpanStart) /\
                                  FirstAt(v, j, SpanClose) > 0 } }

\* C12 (as claimed): a snippet that is not blank and occurs verbatim in the
\* document, toggled while it is not the active key, is located: the view
\* then holds at least one highlight span whose text is the trimmed snippet
\* (as the view renders it), also when the snippet spans several sentences
\* or holds characters the view shows escaped.
C12_VerbatimSnippetIsLocated ==
    [][\A k \in Cards :
          (/\ Toggle(k)
           /\ currentHighlight # CardArg(compliance_results, k)
           /\ Trim(CardArg(compliance_results, k)) # <<>>
           /\ Occurs(CardArg(compliance_results, k), source_text))
          => (/\ last'.outcome = "Applied"
              /\ OriginalView(Trim(CardArg(compliance_results, k)))
                     \in SpanTexts(view'))]_vars

\* s is trimmed, not empty, and differs from some substring of text only in
\* its runs of white space (spaces against line breaks, one against several)
WhitespaceVariant(s, text) ==
    /\ s # <<>>
    /\ Trim(s) = s
    /\ \E i \in 1..Len(text) : \E j \in i..Len(text) :
           /\ Slice(text, i, j) # s
           /\ Trim(Slice(text, i, j)) = Slice(text, i, j)
           /\ normalizeText(Slice(text, i, j)) = normalizeText(s)

\* C13 (as claimed): a snippet that differs from a substring of the document
\* only in internal white space or line-break style, toggled while it is not
\* the active key, is located: the toggle is Applied and the view holds a
\* highlight span.
C13_WhitespaceVariantIsLocated ==
    [][\A k \in Cards :
          (/\ Toggle(k)
           /\ currentHighlight # CardArg(compliance_results, k)
           /\ WhitespaceVariant(CardArg(compliance_results, k), source_text))
          => (last'.outcome = "Applied" /\ HasMarkup(view'))]_vars

\* the regions of the view tagged id="highlight-target"
TargetRegions(v) == { i \in 1..Len(v) : StartsWithAt(v, i, TargetOpen) }

\* C14 (as claimed): when at least one clause of the snippet matched, the
\* first clause that matched is the scroll target, also when clause 0 was
\* skipped or had no match: the view holds exactly one region tagged as the
\* scroll target, every other highlighted region is secondary.
C14_OneScrollTargetPerHighlight ==
    [][\A k \in Cards :
          (Toggle(k) /\ last'.outcome = "Applied" /\ last'.path = "clause")
          => Cardinality(TargetRegions(view')) = 1]_vars

\* C15 (as claimed): every toggle that is Applied, by a clause or by the
\* fallback, makes its snippet the active key and requests a scroll (the
\* callback is scheduled); the scroll a callback performs goes to
\* max(0, top - clientHeight/2 + height/2) of the target and is never
\* negative.
C15_AppliedRequestsCenteredScroll ==
    [][/\ \A k \in Cards :
             (Toggle(k) /\ last'.outcome = "Applied")
             => (/\ currentHighlight' = CardArg(compliance_results, k)
                 /\ timers' = timers + 1)
       /\ \A top \in OffsetTops, h \in ElementHeights :
             (ScrollCallback(top, h) /\ HasTarget(view))
             => (/\ scrollTop' =
                        Max(0, top - (clientHeight \div 2) + (h \div 2))
                 /\ scrollTop' >= 0)]_vars

\* no highlight span of v opens inside another one: after every opening tag
\* the next span tag is a closing tag
NoNestedSpans(v) ==
    \A i \in 1..Len(v) :
        StartsWithAt(v, i, SpanStart)
        => (/\ FirstAt(v, i + 1, SpanClose) > 0
            /\ FirstAt(v, i + 1, SpanStart) \notin
                   1..FirstAt(v, i + 1, SpanClose))

\* C16 (as claimed): a later clause whose pattern matches inside a region an
\* earlier clause of the same toggle highlighted (or inside its markup) is
\* not tagged again: the highlight spans of the view are never nested.
C16_SpansNeverNested == NoNestedSpans(view)

\* C17 (as claimed): a toggle is accepted only when every scroll request of
\* the toggles before it has been issued (no callback is still pending), and
\* a callback that runs after its highlight was cleared performs no scroll.
C17_ScrollIssuedBeforeNextToggle ==
    [][/\ \A k \in Cards : Toggle(k) => timers = 0
       /\ \A top \in OffsetTops, h \in ElementHeights :
             (ScrollCallback(top, h) /\ currentHighlight = Null)
             => scrollTop' = scrollTop]_vars

\* C17 (as the code has it): the scroll is issued by the callback of
\* setTimeout, which may run after later toggles; a callback that runs while
\* no highlight is active (its highlight was cleared) performs no scroll.
C17_StaleCallbackDoesNotScroll ==
    [][\A top \in OffsetTops, h \in ElementHeights :
          (ScrollCallback(top, h) /\ currentHighlight = Null)
          => (scrollTop' = scrollTop /\ view' = view)]_vars

\* a callback is still pending after the toggle that cleared its highlight,
\* and a scroll to the target's place would move the view
C17_Witness ==
    /\ timers > 0
    /\ currentHighlight = Null
    /\ last.outcome = "Cleared"
    /\ \E top \in OffsetTops, h \in ElementHeights :
           scrollTop # Max(0, top - (clientHeight \div 2) + (h \div 2))

\* C18 (as claimed): after any sequence of toggles the active key is not
\* null exactly when the view holds highlight markup.
C18_ActiveKeyIffMarkup == (currentHighlight # Null) <=> HasMarkup(view)

\* position i of v lies in an opening or closing tag of a highlight span
InSpanTag(v, i) ==
    \E j \in 1..i :
        /\ StartsWithAt(v, j, SpanStart) \/ StartsWithAt(v, j, SpanClose)
        /\ \A m \in j..(i - 1) : v[m] # ">"

\* the view with the highlight markup removed
StripMarkup(v) ==
    Concat([i \in 1..Len(v) |-> IF InSpanTag(v, i) THEN <<>> ELSE <<v[i]>>])

\* C20 (as claimed): highlighting only adds markup: in every state, also
\* after a highlight applied by the fallback, the view with the highlight
\* markup removed is the original escaped document.
C20_HighlightKeepsDocumentText ==
    StripMarkup(view) = OriginalView(source_text)

-----------------------------------------------------------------------------
(* Properties of the page across document loads *)

\* C19 (as claimed): the findings shown next to the document come from an
\* analysis of that document: a step that puts another text in source_text
\* either leaves no findings on display or is an analysis run of the new
\* text that installed what it returned.
C19_FindingsBelongToDocument ==
    [][(/\ source_text' # source_text
        /\ PageRenders(source_text', compliance_results'))
       => (run'.kind = "returned" /\ compliance_results' = run'.value)]_vars

====
